---- MODULE Spec2Model ----
(***************************************************************************)
(* Model of the bootstrap-and-install orchestrator of rpi_kubernetes:      *)
(*   bootstrap/scripts/bootstrap_cluster.py  (prog = "bc")                 *)
(*   bootstrap/scripts/install_k3s.py        (prog = "ik")                 *)
(*   bootstrap/scripts/check_cluster_state.py (prog = "cc")                *)
(* One run of one of the main() functions is a behaviour.  Remote          *)
(* commands are answered by the environment: every run()/get_ssh_client()  *)
(* either raises (a transport error) or returns an exit code and output.   *)
(***************************************************************************)
EXTENDS Integers, Sequences, FiniteSets, TLC

\* ------------------------------------------------------------------ bounds

\* Size of the WORKERS inventory (the repository lists four boards).
NumWorkers == 2

\* Longest k3s.yaml tried by SpecRewrite, in pieces.
MaxPieces == 3

\* How many times in a row SpecSteps starts the script.
MaxRuns == 2

\* ------------------------------------------------------- program constants

\* wait_for_nodes(nodes, timeout=180): overall timeout in seconds.
WaitTimeout == 180
\* time.sleep(5) between two polling rounds of wait_for_nodes.
PollSleep == 5
\* client.connect(..., timeout=30): longest time a failing probe may take.
ConnectTimeout == 30
\* for i in range(30): polls of "systemctl is-active k3s" in install_k3s.py.
MaxPolls == 30

\* ---------------------------------------------------------------- inventory

\* CONTROL_PLANE is node 0, WORKERS are nodes 1..NumWorkers in list order.
CONTROL_PLANE == 0
WORKERS == [i \in 1..NumWorkers |-> i]
WorkerSet == 1..NumWorkers
NodeType(n) == IF n = CONTROL_PLANE THEN "control_plane" ELSE "worker"

\* ------------------------------------------------------------------- texts

\* A text is a sequence of words; "NL" is a newline.  None stands for
\* Python's None and NoFile for a file that does not exist.
None == <<"<none>">>
NoFile == <<"<nofile>">>
Empty == <<>>
TokPrev == <<"T_prev">>
TokCp == <<"T_cp">>
TokArg == <<"T_arg">>

IsBlank(w) == w \in {"NL", "SP"}

RECURSIVE LStrip(_)
LStrip(s) == IF s # <<>> /\ IsBlank(Head(s)) THEN LStrip(Tail(s)) ELSE s

RECURSIVE RStrip(_)
RStrip(s) ==
    IF s # <<>> /\ IsBlank(s[Len(s)]) THEN RStrip(SubSeq(s, 1, Len(s) - 1)) ELSE s

\* str.strip()
Strip(s) == RStrip(LStrip(s))

\* Python truthiness of a token value: "if not token".
Truthy(t) == t # None /\ t # Empty

\* What k3s_token.txt may hold when a run starts: nothing, a token of an earlier run (as
\* bootstrap_cluster.py or install_k3s.py wrote it, or with the newline an
\* editor adds), or an empty file (open(..., "w") of an earlier run that
\* never reached f.write, or a run that read an empty node-token).
InitTokenFiles == {NoFile, Empty, TokPrev, TokPrev \o <<"NL">>}

\* What "cat /var/lib/rancher/k3s/server/node-token" may print with exit
\* code 0 (already stripped by run_command / run).
NodeTokenOutputs == {TokCp, Empty}

\* -------------------------------------------------------------- kubeconfig

\* The kubeconfig is a sequence of characters ("SP" a blank, "NL" a newline).
Loopback == <<"1", "2", "7", ".", "0", ".", "0", ".", "1">>
Localhost == <<"l", "o", "c", "a", "l", "h", "o", "s", "t">>

\* CONTROL_PLANE["host"], "192.168.12.112" in both scripts.
Host == <<"1", "9", "2", ".", "1", "6", "8", ".", "1", "2", ".", "1", "1", "2">>

\* The pieces a k3s.yaml is put together from: the two loopback names, the
\* text k3s writes around them ("server: https://127.0.0.1:6443"), blanks,
\* and the digits that may stand next to an address.
Pieces ==
    {Loopback, Localhost, <<"/", "/">>, <<":", "6", "4", "4", "3">>,
     <<"NL">>, <<"SP">>, <<"7", ".", "0", ".", "0", ".", "1">>,
     <<"1", "2", "7", ".", "0", ".", "0", ".">>}

\* The k3s.yaml files of up to MaxPieces pieces.
KubeTexts == UNION {[1..n -> Pieces] : n \in 0..MaxPieces}

\* The file k3s writes: "server: https://127.0.0.1:6443" and a final newline.
K3sYaml == <<(<<"/", "/">>), Loopback, (<<":", "6", "4", "4", "3">>), (<<"NL">>)>>

RECURSIVE Flatten(_)
Flatten(ps) == IF ps = <<>> THEN <<>> ELSE Head(ps) \o Flatten(Tail(ps))

\* Variant of Replace: only the first occurrence is replaced.
RECURSIVE ReplaceFirstOnly(_, _, _)
ReplaceFirstOnly(s, old, new) ==
    IF Len(s) < Len(old) THEN s
    ELSE IF SubSeq(s, 1, Len(old)) = old
         THEN new \o SubSeq(s, Len(old) + 1, Len(s))
         ELSE <<Head(s)>> \o ReplaceFirstOnly(Tail(s), old, new)

\* str.replace(old, new): the occurrences of old are found from left to
\* right, each search starting after the occurrence before.
RECURSIVE Replace(_, _, _)
Replace(s, old, new) ==
    IF Len(s) < Len(old) THEN s
    ELSE IF SubSeq(s, 1, Len(old)) = old
         THEN new \o Replace(SubSeq(s, Len(old) + 1, Len(s)), old, new)
         ELSE <<Head(s)>> \o Replace(Tail(s), old, new)

\* out.replace("127.0.0.1", node["host"]).replace("localhost", node["host"])
Rewrite(out, host) == Replace(Replace(out, Loopback, host), Localhost, host)

\* What run()/run_command() return for "cat /etc/rancher/k3s/k3s.yaml":
\* stdout.read().decode().strip()
CatOutput(file) == Strip(Flatten(file))

\* ------------------------------------------------- the bootstrap step lists

\* The descriptions of bootstrap_ubuntu's commands, in list order.
UbuntuCommands ==
    <<"Disabling swap", "Removing swap from fstab", "Updating packages",
      "Installing prerequisites", "Loading br_netfilter module",
      "Persisting br_netfilter", "Setting sysctl params", "Applying sysctl">>

\* The descriptions of bootstrap_rpi's commands, in list order.
RpiCommands ==
    <<"Disabling swap", "Disabling swap service", "Removing swap from fstab",
      "Updating packages", "Installing prerequisites",
      "Enabling cgroups in cmdline", "Loading br_netfilter module",
      "Persisting br_netfilter", "Setting sysctl params", "Applying sysctl">>

Commands(type) == IF type = "control_plane" THEN UbuntuCommands ELSE RpiCommands

MemParam == "cgroup_memory=1"
EnableParam == "cgroup_enable=memory"

\* The "Enabling cgroups in cmdline" script as a sequence of shell tokens.
\* FIND is the if/elif/fi that sets CMDLINE_FILE, IF_FOUND is
\* 'if [ -n "$CMDLINE_FILE" ]; then', BACKUP the cp line, IF_NOT_GREP is
\* 'if ! grep -q "cgroup_memory=1" "$CMDLINE_FILE"; then'; the sed line is
\* spelled out because it holds single quotes and blanks.
CgroupScript ==
    <<"NL", "FIND", "NL", "IF_FOUND", "NL", "BACKUP", "NL", "IF_NOT_GREP", "NL",
      "sed", "SP", "-i", "SP", "'", "s/$/", "SP", MemParam, "SP",
      "cgroup_enable=memory/", "'", "SP", "$CMDLINE_FILE", "NL",
      "fi", "NL", "fi", "NL">>

\* The command text of a step.  Only the single quotes and the blanks
\* between them matter to how it is run; the other commands are one token
\* per word.
CommandText(desc) ==
    CASE desc = "Enabling cgroups in cmdline" -> CgroupScript
      [] desc = "Removing swap from fstab" ->
            <<"sed", "SP", "-i", "SP", "'", "/swap/d", "'", "SP", "/etc/fstab">>
      [] desc = "Persisting br_netfilter" ->
            <<"echo", "SP", "'", "br_netfilter", "'", "SP", ">", "SP", "k8s.conf">>
      [] desc = "Setting sysctl params" ->
            <<"cat", "SP", ">", "SP", "k8s.conf", "SP", "<<", "SP", "'", "EOF",
              "'", "NL", "net.ipv4.ip_forward", "SP", "=", "SP", "1", "NL", "EOF">>
      [] OTHER -> <<desc>>

\* The first word the remote shell reads from toks: a single quote switches
\* quoting on or off, a blank outside quotes ends the word.
RECURSIVE ShellWord(_, _)
ShellWord(toks, quoted) ==
    IF toks = <<>> THEN <<>>
    ELSE IF Head(toks) = "'" THEN ShellWord(Tail(toks), ~quoted)
    ELSE IF ~quoted /\ IsBlank(Head(toks)) THEN <<>>
    ELSE <<Head(toks)>> \o ShellWord(Tail(toks), quoted)

\* run_command(client, cmd, sudo=True): cmd = f"sudo bash -c '{cmd}'".  What
\* bash gets as its -c argument is the shell word that starts at that quote.
ScriptArg(cmd) == ShellWord(<<"'">> \o cmd \o <<"'">>, FALSE)

Count(seq, set) == Cardinality({i \in DOMAIN seq : seq[i] \in set})

\* bash runs a -c script whose if blocks are all closed; one left open is
\* "syntax error: unexpected end of file", exit code 2, and the open block
\* is not run.
Balanced(script) ==
    Count(script, {"IF_FOUND", "IF_NOT_GREP"}) = Count(script, {"fi"})

\* grep -q pattern file
Grep(line, pattern) == \E i \in DOMAIN line : line[i] = pattern

\* The cgroup script run as written on a worker's files b: nothing without a
\* cmdline.txt; else cp to .bak, then, unless cgroup_memory=1 is found, sed
\* appends both parameters (sedOk: sed -i succeeded).
CgroupEdit(b, sedOk) ==
    IF b.line = NoFile THEN b
    ELSE [b EXCEPT !.bak = b.line, !.baks = @ + 1,
                   !.line = IF Grep(b.line, MemParam) \/ ~sedOk THEN @
                            ELSE @ \o <<MemParam, EnableParam>>]

\* The possible results [code, b] of the step described by desc on a node
\* whose cmdline files are b.  A script that reaches bash cut short and unbalanced
\* exits 2 and changes nothing; else the cgroup step acts as written and
\* any other step exits 0 or not.
StepResults(desc, b) ==
    LET script == ScriptArg(CommandText(desc)) IN
    IF ~Balanced(script) THEN {[code |-> 2, b |-> b]}
    ELSE IF desc = "Enabling cgroups in cmdline"
         THEN {[code |-> IF ok THEN 0 ELSE 1, b |-> CgroupEdit(b, ok)] :
                 ok \in {TRUE, FALSE}}
         ELSE {[code |-> c, b |-> b] : c \in {0, 1}}

\* A boot command line is a sequence of words.
PlainLine == <<"console=tty1", "rootwait">>

\* The command lines a worker image may come with: no cmdline.txt, neither
\* parameter, one of them, both, both in the middle of the line.
Images ==
    {NoFile, PlainLine, PlainLine \o <<MemParam>>, PlainLine \o <<EnableParam>>,
     PlainLine \o <<MemParam, EnableParam>>,
     <<"console=tty1", EnableParam, MemParam, "rootwait">>}

\* --------------------------------------------------------------- variables

VARIABLES
    prog,               \* which script runs: "bc", "ik" or "cc"
    args,               \* parsed command-line flags
    pc,                 \* position in main()
    exit_code,          \* -1 while running, then main()'s return value
    all_nodes,          \* bc: nodes selected by the flags
    idx,                \* index of the for loop main() is in
    bootstrap_success,  \* bc: main()'s bootstrap_success
    needs_reboot,       \* bc: main()'s needs_reboot list
    bootFailed,         \* nodes whose bootstrap_ubuntu/bootstrap_rpi returned False
    ns,                 \* per worker: "up", "halting", "down", "dead", "back"
    lastReboot,         \* the latest reboot_node() call and its result
    pending,            \* wait_for_nodes: pending list
    clock,              \* wait_for_nodes: time.time() - start_time
    answered,           \* wait_for_nodes: nodes whose probe connected
    waitResult,         \* "none", "ok", "timeout"
    reported,           \* wait_for_nodes: nodes printed as still not reachable
    spc,                \* position in install_k3s_server()
    cp,                 \* control plane: [installed, active]
    srv,                \* facts about this run's install_k3s_server() call
    tokenFile,          \* content of k3s_token.txt
    kubeFile,           \* content of kubeconfig.yaml
    token,              \* main()'s token variable
    agentCalls,         \* install_k3s_agent() calls made, in order
    failed_workers,     \* ik: main()'s failed_workers list
    remoteOps,          \* kinds of remote action and file write made so far
    k3sYaml,            \* control plane: /etc/rancher/k3s/k3s.yaml, as pieces
    runs,               \* how many times the script has been started
    image,              \* the boot command line the workers were flashed with
    boot,               \* per worker: cmdline.txt, its .bak, the cgroup step
    prepared,           \* nodes on which every bootstrap step has exited 0
    call,               \* the bootstrap_ubuntu/bootstrap_rpi call, step by step
    node_states,        \* check_cluster_state: main()'s node_states (results only)
    all_ready,          \* check_cluster_state: main()'s all_ready
    cgroupFacts         \* the cgroup files of the worker checked last

vars == <<prog, args, pc, exit_code, all_nodes, idx, bootstrap_success,
          needs_reboot, bootFailed, ns, lastReboot, pending, clock,
          answered, waitResult, reported, spc, cp, srv, tokenFile, kubeFile,
          token, agentCalls, failed_workers, remoteOps, k3sYaml, runs, image,
          boot, prepared, call, node_states, all_ready, cgroupFacts>>

bootVars == <<all_nodes, bootstrap_success, needs_reboot, bootFailed>>
rebootVars == <<ns, lastReboot>>
waitVars == <<pending, clock, answered, waitResult, reported>>
serverVars == <<spc, cp, srv>>
fileVars == <<tokenFile, kubeFile>>
agentVars == <<agentCalls, failed_workers>>
runVars == <<prog, args>>
checkVars == <<node_states, all_ready, cgroupFacts>>
\* The nodes' files and the step-by-step view of one bootstrap call: Spec
\* takes a node's bootstrap as one step with an outcome and leaves these
\* alone; SpecSteps follows them.
detailVars == <<k3sYaml, runs, image, boot, prepared, call>>

\* ------------------------------------------------------------ initial state

BOOL == {TRUE, FALSE}

\* argparse results of bootstrap_cluster.py (the install_k3s.py fields unset).
BcArgs ==
    [dry_run : BOOL, bootstrap_only : BOOL, k3s_only : BOOL,
     skip_reboot : BOOL, workers_only : BOOL, control_plane_only : BOOL,
     server_only : {FALSE}, agents_only : {FALSE}, token : {None}]

\* argparse results of install_k3s.py (the bootstrap_cluster.py fields unset).
IkArgs ==
    [dry_run : {FALSE}, bootstrap_only : {FALSE}, k3s_only : {FALSE},
     skip_reboot : {FALSE}, workers_only : {FALSE}, control_plane_only : {FALSE},
     server_only : BOOL, agents_only : BOOL, token : {None, TokArg}]

\* The control plane when the run starts: k3s absent, installed but not
\* running, or installed and active.
CpStates == {c \in [installed : BOOL, active : BOOL] : c.active => c.installed}

SrvInit ==
    [result |-> "none", retToken |-> None, activeAtCall |-> FALSE,
     installer |-> FALSE, polls |-> 0, sawActive |-> FALSE, wrote |-> {},
     raised |-> FALSE, closed |-> FALSE, token |-> None]

NoReboot == [node |-> -1, outcome |-> "none", ok |-> FALSE]

\* The cgroup files of a node no check has looked at.
NoFacts ==
    [hierarchy |-> "none", memstat |-> FALSE, controllers |-> <<>>,
     enabled |-> ""]

\* No bootstrap call has been made: step is the command about to be run (0
\* outside a call), issued the commands run, warn the first step that
\* exited non-zero (0: none), ret the return value.
NoCall ==
    [node |-> -1, step |-> 0, issued |-> <<>>, warn |-> 0, raised |-> FALSE,
     ret |-> "none"]

\* Every worker starts with the image's command line and no backup; baks
\* counts the times the .bak was written, applied the times the cgroup step
\* was run, and cg is the exit of the cgroup step of this run ("none", "ok",
\* "failed").
BootFiles(img) ==
    [line |-> img, bak |-> NoFile, baks |-> 0, applied |-> 0, cg |-> "none"]

BootInit(img) == [n \in WorkerSet |-> BootFiles(img)]

\* A run starts with some flags, some k3s_token.txt (left by earlier runs),
\* no kubeconfig.yaml yet, and some control plane.
Init ==
    /\ prog \in {"bc", "ik"}
    /\ args \in (IF prog = "bc" THEN BcArgs ELSE IkArgs)
    /\ pc = "start"
    /\ exit_code = -1
    /\ all_nodes = <<>>
    /\ idx = 0
    /\ bootstrap_success = TRUE
    /\ needs_reboot = <<>>
    /\ bootFailed = {}
    /\ ns = [n \in WorkerSet |-> "up"]
    /\ lastReboot = NoReboot
    /\ pending = <<>>
    /\ clock = 0
    /\ answered = {}
    /\ waitResult = "none"
    /\ reported = <<>>
    /\ spc = "idle"
    /\ cp \in CpStates
    /\ srv = SrvInit
    /\ tokenFile \in InitTokenFiles
    /\ kubeFile = NoFile
    /\ token = None
    /\ agentCalls = <<>>
    /\ failed_workers = <<>>
    /\ remoteOps = {}
    /\ k3sYaml = K3sYaml
    /\ runs = 1
    /\ image = PlainLine
    /\ boot = BootInit(image)
    /\ prepared = {}
    /\ call = NoCall
    /\ node_states = <<>>
    /\ all_ready = TRUE
    /\ cgroupFacts = NoFacts

\* ----------------------------------------------------------- main(): start

\* all_nodes as built from --workers-only / --control-plane-only.
AllNodes(a) ==
    (IF ~a.workers_only THEN <<CONTROL_PLANE>> ELSE <<>>)
        \o (IF ~a.control_plane_only THEN WORKERS ELSE <<>>)

BcStart ==
    /\ prog = "bc" /\ pc = "start"
    /\ all_nodes' = AllNodes(args)
    /\ pc' = IF ~args.k3s_only THEN "bootstrap" ELSE "phase1_end"
    /\ idx' = 1
    /\ UNCHANGED <<exit_code, bootstrap_success, needs_reboot, bootFailed>>
    /\ UNCHANGED <<rebootVars, waitVars, serverVars, fileVars, token, agentVars,
                   runVars, checkVars, detailVars, remoteOps>>

\* ------------------------------------------------- phase 1: bootstrap nodes

\* How the remote side may answer a node's bootstrap step list: every step
\* exits 0, some step exits non-zero, or the transport raises.
BootOutcomes == {"ok", "step_failed", "transport_error"}

\* bootstrap_ubuntu's return value: the first non-zero exit returns False,
\* an exception returns False.
bootstrap_ubuntu(dry_run, outcome) == dry_run \/ outcome = "ok"

\* bootstrap_rpi's return value: a non-zero exit only prints [WARN]; only an
\* exception returns False.
bootstrap_rpi(dry_run, outcome) == dry_run \/ outcome # "transport_error"

\* The remote action a bootstrap call makes: "if dry_run: ... return True"
\* comes before get_ssh_client(node).
BootstrapOps(dry_run) == IF dry_run THEN {} ELSE {"bootstrap"}

BootstrapNode ==
    /\ prog = "bc" /\ pc = "bootstrap" /\ idx <= Len(all_nodes)
    /\ remoteOps' = remoteOps \cup BootstrapOps(args.dry_run)
    /\ LET node == all_nodes[idx] IN
       \E outcome \in BootOutcomes :
         LET success == IF NodeType(node) = "control_plane"
                        THEN bootstrap_ubuntu(args.dry_run, outcome)
                        ELSE bootstrap_rpi(args.dry_run, outcome)
         IN /\ needs_reboot' =
                 IF NodeType(node) = "worker" /\ success
                 THEN Append(needs_reboot, node) ELSE needs_reboot
            /\ bootstrap_success' = (bootstrap_success /\ success)
            /\ bootFailed' = IF success THEN bootFailed ELSE bootFailed \cup {node}
    /\ idx' = idx + 1
    /\ UNCHANGED <<pc, exit_code, all_nodes>>
    /\ UNCHANGED <<rebootVars, waitVars, serverVars, fileVars, token, agentVars,
                   runVars, checkVars, detailVars>>

\* Variant of RebootWanted: without "and not args.dry_run".
RebootWantedInDryRun(a, nr) == nr # <<>> /\ ~a.skip_reboot

\* Variant of RebootWanted: "args.skip_reboot" for "not args.skip_reboot".
RebootWantedWhenSkipped(a, nr) == nr # <<>> /\ a.skip_reboot /\ ~a.dry_run

\* "if needs_reboot and not args.skip_reboot and not args.dry_run"
RebootWanted(a, nr) == nr # <<>> /\ ~a.skip_reboot /\ ~a.dry_run

BootstrapDone ==
    /\ prog = "bc" /\ pc = "bootstrap" /\ idx > Len(all_nodes)
    /\ pc' = IF RebootWanted(args, needs_reboot) THEN "reboot" ELSE "phase1_end"
    /\ idx' = 1
    /\ UNCHANGED <<exit_code, bootVars>>
    /\ UNCHANGED <<rebootVars, waitVars, serverVars, fileVars, token, agentVars,
                   runVars, checkVars, detailVars, remoteOps>>

\* ------------------------------------ phase 1, one bootstrap call by steps

\* How a call went, as BootstrapNode names it: a transport error, some step
\* with a non-zero exit, or neither.
CallOutcome(c) ==
    IF c.raised THEN "transport_error"
    ELSE IF c.warn # 0 THEN "step_failed" ELSE "ok"

\* Variant of NextStep: bootstrap_rpi's loop, which goes on after a
\* non-zero exit, for both node types.
NextStepNeverStops(type, k, code) ==
    IF k = Len(Commands(type)) THEN 0 ELSE k + 1

\* The step after step k exited with code, 0 when the call returns:
\* bootstrap_ubuntu has "if code != 0: ... return False"; bootstrap_rpi
\* prints [WARN] or [OK] and goes on; after the last command both close the
\* session and return True.
NextStep(type, k, code) ==
    IF type = "control_plane" /\ code # 0 THEN 0
    ELSE IF k = Len(Commands(type)) THEN 0 ELSE k + 1

\* The call c on node returns, and the body of main()'s "for node in
\* all_nodes" goes on with its result.
BootReturns(node, c) ==
    LET outcome == CallOutcome(c)
        success == IF NodeType(node) = "control_plane"
                   THEN bootstrap_ubuntu(args.dry_run, outcome)
                   ELSE bootstrap_rpi(args.dry_run, outcome)
    IN /\ call' = [c EXCEPT !.step = 0,
                            !.ret = IF success THEN "True" ELSE "False"]
       /\ needs_reboot' =
            IF NodeType(node) = "worker" /\ success
            THEN Append(needs_reboot, node) ELSE needs_reboot
       /\ bootstrap_success' = (bootstrap_success /\ success)
       /\ bootFailed' = IF success THEN bootFailed ELSE bootFailed \cup {node}
       /\ prepared' = IF ~args.dry_run /\ outcome = "ok"
                      THEN prepared \cup {node} ELSE prepared
       /\ idx' = idx + 1

\* bootstrap_ubuntu(node, dry_run) / bootstrap_rpi(node, dry_run) is called:
\* with dry_run it prints the list and returns True; else
\* get_ssh_client(node) connects or raises.
BootEnter ==
    /\ prog = "bc" /\ pc = "bootstrap" /\ idx <= Len(all_nodes)
    /\ call.step = 0
    /\ LET node == all_nodes[idx]
           c == [NoCall EXCEPT !.node = node]
       IN /\ remoteOps' = remoteOps \cup BootstrapOps(args.dry_run)
          /\ boot' = IF NodeType(node) = "worker"
                     THEN [boot EXCEPT ![node].cg = "none"] ELSE boot
          /\ IF args.dry_run
             THEN BootReturns(node, c)
             ELSE \E connects \in BOOL :
                    IF connects
                    THEN /\ call' = [c EXCEPT !.step = 1]
                         /\ UNCHANGED <<idx, needs_reboot, bootstrap_success,
                                        bootFailed, prepared>>
                    ELSE BootReturns(node, [c EXCEPT !.raised = TRUE])
    /\ UNCHANGED <<pc, exit_code, all_nodes, k3sYaml, runs, image>>
    /\ UNCHANGED <<rebootVars, waitVars, serverVars, fileVars, token, agentVars,
                   runVars, checkVars>>

\* One pass of "for desc, cmd in commands": run_command(client, cmd,
\* sudo=True) raises or returns an exit code.
BootStep ==
    /\ prog = "bc" /\ pc = "bootstrap" /\ call.step > 0
    /\ LET node == call.node
           type == NodeType(node)
           desc == Commands(type)[call.step]
           b == IF type = "worker" THEN boot[node] ELSE BootFiles(NoFile)
       IN \/ /\ BootReturns(node, [call EXCEPT !.raised = TRUE])
             /\ boot' = boot
          \/ \E r \in StepResults(desc, b) :
               LET c == [call EXCEPT
                           !.issued = Append(@, desc),
                           !.warn = IF @ = 0 /\ r.code # 0 THEN call.step ELSE @,
                           !.step = NextStep(type, call.step, r.code)]
               IN /\ boot' =
                       IF type = "worker"
                       THEN [boot EXCEPT ![node] =
                               IF desc = "Enabling cgroups in cmdline"
                               THEN [r.b EXCEPT !.applied = @ + 1,
                                                !.cg = IF r.code = 0 THEN "ok"
                                                       ELSE "failed"]
                               ELSE r.b]
                       ELSE boot
                  /\ IF c.step = 0
                     THEN BootReturns(node, c)
                     ELSE /\ call' = c
                          /\ UNCHANGED <<idx, needs_reboot, bootstrap_success,
                                         bootFailed, prepared>>
    /\ UNCHANGED <<pc, exit_code, all_nodes, k3sYaml, runs, image, remoteOps>>
    /\ UNCHANGED <<rebootVars, waitVars, serverVars, fileVars, token, agentVars,
                   runVars, checkVars>>

\* The script has ended and is started again with the same flags: main()'s
\* variables are new, the nodes are as the run before left them.
Rerun ==
    /\ prog = "bc" /\ pc = "done" /\ runs < MaxRuns
    /\ runs' = runs + 1
    /\ pc' = "start"
    /\ exit_code' = -1
    /\ all_nodes' = <<>>
    /\ idx' = 0
    /\ bootstrap_success' = TRUE
    /\ needs_reboot' = <<>>
    /\ bootFailed' = {}
    /\ call' = NoCall
    /\ remoteOps' = {}
    /\ UNCHANGED <<k3sYaml, image, boot, prepared>>
    /\ UNCHANGED <<rebootVars, waitVars, serverVars, fileVars, token, agentVars,
                   runVars, checkVars>>

\* ------------------------------------------------------ reboot synchronizer

\* How a reboot_node call may go: the command returns and the session is
\* closed; the connection drops with "Socket is closed"/"Connection reset";
\* it drops with another message; the node cannot be reached at all; or
\* get_ssh_client(node) itself raises with "Connection reset" in its message.
RebootOutcomes ==
    {"returned", "dropped", "dropped_other", "connect_error", "connect_reset"}

\* reboot_node's return value ("dry_run": it was called with dry_run and
\* returned True at once).
reboot_node(outcome) ==
    outcome \in {"returned", "dropped", "connect_reset", "dry_run"}

\* Whether the reboot command reached the node.
Dispatched(outcome) ==
    outcome \notin {"connect_error", "connect_reset", "dry_run"}

\* The remote action a reboot_node call makes: "if dry_run: ... return True"
\* comes before get_ssh_client(node).
RebootOps(dry_run) == IF dry_run THEN {} ELSE {"reboot"}

\* A worker after reboot_node: "dead" if it is gone for good (it never
\* answers again), else "halting" once the command was dispatched.
RebootNode ==
    /\ prog = "bc" /\ pc = "reboot" /\ idx <= Len(needs_reboot)
    /\ LET node == needs_reboot[idx] IN
       \E outcome \in (IF args.dry_run THEN {"dry_run"} ELSE RebootOutcomes),
          dies \in (IF args.dry_run THEN {FALSE} ELSE BOOL) :
         /\ lastReboot' =
                [node |-> node, outcome |-> outcome, ok |-> reboot_node(outcome)]
         /\ ns' = [ns EXCEPT ![node] =
                     IF dies THEN "dead"
                     ELSE IF Dispatched(outcome) THEN "halting" ELSE @]
    /\ idx' = idx + 1
    /\ remoteOps' = remoteOps \cup RebootOps(args.dry_run)
    /\ UNCHANGED <<pc, exit_code, bootVars>>
    /\ UNCHANGED <<waitVars, serverVars, fileVars, token, agentVars, runVars, checkVars,
                   detailVars>>

\* time.sleep(10), then wait_for_nodes(needs_reboot) starts.
RebootDone ==
    /\ prog = "bc" /\ pc = "reboot" /\ idx > Len(needs_reboot)
    /\ pc' = "wait"
    /\ pending' = needs_reboot
    /\ clock' = 0
    /\ answered' = {}
    /\ lastReboot' = NoReboot
    /\ UNCHANGED <<exit_code, idx, bootVars, ns, waitResult, reported>>
    /\ UNCHANGED <<serverVars, fileVars, token, agentVars, runVars, checkVars, detailVars,
                   remoteOps>>

\* The states a worker may be in some time after being in state s.
Later(s) ==
    CASE s = "halting" -> {"halting", "down", "back"}
      [] s = "down" -> {"down", "back"}
      [] OTHER -> {s}

\* get_ssh_client(node) connects.
Answers(s) == s \in {"up", "halting", "back"}

Range(s) == {s[i] : i \in 1..Len(s)}

\* Variant of ProbeRound: "pending.pop(0)" for "pending.remove(node)".
ProbeRoundPopHead(p, up) ==
    SubSeq(p, Cardinality(Range(p) \cap up) + 1, Len(p))

\* One pass of "for node in list(pending)": every node whose probe connects
\* is removed from pending, the others stay, in order.
ProbeRound(p, up) == SelectSeq(p, LAMBDA n : n \notin up)

\* "while pending and (time.time() - start_time) < timeout"
WaitGoesOn(p, t) == p # <<>> /\ t < WaitTimeout

\* Variant of Elapsed: time.time() stands still.
ElapsedClockStopped(spent, left) == 0

\* The time one round adds to time.time() - start_time: what the probes
\* took, and "if pending: time.sleep(5)".
Elapsed(spent, left) == spent + (IF left # <<>> THEN PollSleep ELSE 0)

\* One round of the while loop: every pending node is probed once (a failing
\* connect may take up to its own timeout), then time.sleep(5) if any is left.
WaitRound ==
    /\ prog = "bc" /\ pc = "wait" /\ WaitGoesOn(pending, clock)
    /\ \E nsNow \in [WorkerSet -> {"up", "halting", "down", "dead", "back"}] :
         /\ \A n \in WorkerSet :
              nsNow[n] \in (IF n \in Range(pending) THEN Later(ns[n]) ELSE {ns[n]})
         /\ ns' = nsNow
         /\ LET up == {n \in WorkerSet : Answers(nsNow[n])} IN
            /\ pending' = ProbeRound(pending, up)
            /\ answered' = answered \cup (Range(pending) \cap up)
            /\ \E spent \in (IF Range(pending) \subseteq up THEN {0}
                             ELSE {0, ConnectTimeout}) :
                 clock' = clock + Elapsed(spent, pending')
    /\ remoteOps' = remoteOps \cup {"probe"}
    /\ UNCHANGED <<pc, exit_code, idx, bootVars, lastReboot, waitResult, reported>>
    /\ UNCHANGED <<serverVars, fileVars, token, agentVars, runVars, checkVars, detailVars>>

\* Variant of AfterWait: the result of wait_for_nodes is not looked at.
AfterWaitIgnoresResult(ok) == [pc |-> "phase1_end", code |-> -1]

\* main(): "if not wait_for_nodes(needs_reboot): return 1"
AfterWait(ok) ==
    IF ok THEN [pc |-> "phase1_end", code |-> -1] ELSE [pc |-> "done", code |-> 1]

\* The loop is left: wait_for_nodes prints the nodes still pending (kept in
\* reported) and returns whether none is, and main() acts on that.  The
\* function's locals end with it.
WaitReturn ==
    /\ prog = "bc" /\ pc = "wait" /\ ~WaitGoesOn(pending, clock)
    /\ LET ok == (pending = <<>>) IN
       /\ waitResult' = IF ok THEN "ok" ELSE "timeout"
       /\ reported' = pending
       /\ pc' = AfterWait(ok).pc
       /\ exit_code' = AfterWait(ok).code
    /\ pending' = <<>>
    /\ clock' = 0
    /\ UNCHANGED <<idx, bootVars, answered>>
    /\ UNCHANGED <<rebootVars, serverVars, fileVars, token, agentVars, runVars, checkVars,
                   detailVars, remoteOps>>

\* -------------------------------------------------- main(): phase 2 begins

\* Variant of BcPhaseTwoPc: the condition of "if not args.workers_only:"
\* inverted.
BcPhaseTwoPcInverted(a) ==
    IF a.bootstrap_only THEN [pc |-> "done", code |-> 0]
    ELSE IF a.workers_only THEN [pc |-> "server", code |-> -1]
    ELSE [pc |-> "token", code |-> -1]

\* bootstrap_cluster.main: "if args.bootstrap_only: return 0", then phase 2:
\* "if not args.workers_only: install_k3s_server(...)".
BcPhaseTwoPc(a) ==
    IF a.bootstrap_only THEN [pc |-> "done", code |-> 0]
    ELSE IF ~a.workers_only THEN [pc |-> "server", code |-> -1]
    ELSE [pc |-> "token", code |-> -1]

\* The reboot synchronizer's bookkeeping ends with phase 1.
PhaseTwo ==
    /\ prog = "bc" /\ pc = "phase1_end"
    /\ pc' = BcPhaseTwoPc(args).pc
    /\ exit_code' = BcPhaseTwoPc(args).code
    /\ ns' = [n \in WorkerSet |-> "up"]
    /\ pending' = <<>> /\ clock' = 0 /\ answered' = {} /\ reported' = <<>>
    /\ UNCHANGED <<idx, bootVars, lastReboot, waitResult>>
    /\ UNCHANGED <<serverVars, fileVars, token, agentVars, runVars, checkVars, detailVars,
                   remoteOps>>

\* install_k3s.main: "if not args.agents_only:" the server is installed;
\* "if args.server_only: return 0" is met on either path.
IkStartPc(a) ==
    IF ~a.agents_only THEN [pc |-> "server", code |-> -1]
    ELSE IF a.server_only THEN [pc |-> "done", code |-> 0]
    ELSE [pc |-> "token", code |-> -1]

\* install_k3s.main: "token = args.token", then the server install unless
\* --agents-only.
IkStart ==
    /\ prog = "ik" /\ pc = "start"
    /\ token' = args.token
    /\ pc' = IkStartPc(args).pc
    /\ exit_code' = IkStartPc(args).code
    /\ UNCHANGED <<idx, bootVars>>
    /\ UNCHANGED <<rebootVars, waitVars, serverVars, fileVars, agentVars,
                   runVars, checkVars, detailVars, remoteOps>>

\* ---------------------------------------------------- install_k3s_server()

\* Variant of AfterServer: without "if not success: ... return 1".
AfterServerIgnoresFailure(p, a, ok) ==
    IF p = "ik" /\ a.server_only THEN [pc |-> "done", code |-> 0]
    ELSE [pc |-> "token", code |-> -1]

\* main() after install_k3s_server returned: failure ends the run with 1.
\* bootstrap_cluster.main goes on to read the token; install_k3s.main
\* returns 0 there with --server-only.
AfterServer(p, a, ok) ==
    IF ~ok THEN [pc |-> "done", code |-> 1]
    ELSE IF p = "ik" /\ a.server_only THEN [pc |-> "done", code |-> 0]
    ELSE [pc |-> "token", code |-> -1]

\* install_k3s_server returns (ok, tok); closed tells whether client.close()
\* ran before the return.  bootstrap_cluster's version returns only ok and
\* main() keeps token = None; install_k3s.main assigns "success, token".
ServerReturns(s, ok, tok, closed, raised) ==
    /\ spc' = "idle"
    /\ srv' = [s EXCEPT !.result = IF ok THEN "ok" ELSE "fail",
                        !.retToken = tok, !.closed = closed,
                        !.raised = raised]
    /\ token' = IF prog = "ik" THEN tok ELSE token
    /\ pc' = AfterServer(prog, args, ok).pc
    /\ exit_code' = AfterServer(prog, args, ok).code

\* "if dry_run: ... return True" (bootstrap_cluster only).
ServerDryRun ==
    /\ pc = "server" /\ spc = "idle" /\ srv.result = "none"
    /\ prog = "bc" /\ args.dry_run
    /\ ServerReturns(srv, TRUE, None, FALSE, FALSE)
    /\ cp' = cp
    /\ UNCHANGED <<idx, bootVars, rebootVars, waitVars, fileVars, agentVars,
                   runVars, checkVars, detailVars, remoteOps>>

\* install_k3s_server is entered without dry_run: "try:
\* client = get_ssh_client(node)" comes next.
ServerConnect ==
    /\ pc = "server" /\ spc = "idle" /\ srv.result = "none"
    /\ ~(prog = "bc" /\ args.dry_run)
    /\ srv' = [srv EXCEPT !.activeAtCall = cp.active]
    /\ spc' = "connect"
    /\ remoteOps' = remoteOps \cup {"server"}
    /\ UNCHANGED <<pc, exit_code, idx, bootVars, rebootVars, waitVars, cp,
                   fileVars, token, agentVars, runVars, checkVars, detailVars>>

\* The steps of install_k3s_server that talk to the control plane.
RemoteSteps ==
    {"connect", "which", "is_active", "old_token", "install", "poll",
     "journal", "token", "kube", "get_nodes"}

\* Any of them may raise: "except Exception as e: ... return False".  When
\* the installer's run() raises, the command may or may not have been sent.
ServerRaises ==
    /\ pc = "server" /\ spc \in RemoteSteps
    /\ \E sent \in (IF spc = "install" THEN BOOL ELSE {FALSE}) :
         ServerReturns([srv EXCEPT !.installer = @ \/ sent], FALSE, None, FALSE,
                       TRUE)
    /\ cp' = cp
    /\ UNCHANGED <<idx, bootVars, rebootVars, waitVars, fileVars, agentVars,
                   runVars, checkVars, detailVars, remoteOps>>

\* The step after a successful connect.
FirstStep(p) == IF p = "ik" THEN "which" ELSE "install"

ServerConnected ==
    /\ pc = "server" /\ spc = "connect"
    /\ spc' = FirstStep(prog)
    /\ UNCHANGED <<pc, exit_code, idx, bootVars, rebootVars, waitVars, cp, srv,
                   fileVars, token, agentVars, runVars, checkVars, detailVars, remoteOps>>

\* install_k3s.py: run("which k3s"); "if code == 0:" checks the status.
ServerWhich ==
    /\ pc = "server" /\ spc = "which"
    /\ spc' = IF cp.installed THEN "is_active" ELSE "install"
    /\ UNCHANGED <<pc, exit_code, idx, bootVars, rebootVars, waitVars, cp, srv,
                   fileVars, token, agentVars, runVars, checkVars, detailVars, remoteOps>>

\* install_k3s.py: run("sudo systemctl is-active k3s"); 'if out == "active":'
\* reads the token and returns, else the installer runs.
ServerIsActive ==
    /\ pc = "server" /\ spc = "is_active"
    /\ spc' = IF cp.active THEN "old_token" ELSE "install"
    /\ srv' = [srv EXCEPT !.polls = @ + 1, !.sawActive = cp.active]
    /\ UNCHANGED <<pc, exit_code, idx, bootVars, rebootVars, waitVars, cp,
                   fileVars, token, agentVars, runVars, checkVars, detailVars, remoteOps>>

\* install_k3s.py, already running: "if code == 0: return True, out.strip()"
\* else "return True, None"; nothing is written and the session stays open.
ServerOldToken ==
    /\ pc = "server" /\ spc = "old_token"
    /\ \E code \in {0, 1}, out \in NodeTokenOutputs :
         ServerReturns(srv, TRUE, IF code = 0 THEN Strip(out) ELSE None, FALSE,
                       FALSE)
    /\ cp' = cp
    /\ UNCHANGED <<idx, bootVars, rebootVars, waitVars, fileVars, agentVars,
                   runVars, checkVars, detailVars, remoteOps>>

\* Variant of AfterInstaller: the wait for the service is left out.
AfterInstallerSkipsPoll(code) == IF code = 0 THEN "token" ELSE "failed"

\* After the installer: exit code 0 goes on to wait for the service, another
\* code returns False.
AfterInstaller(code) == IF code = 0 THEN "poll" ELSE "failed"

\* run(client, "sudo bash -c '<install_cmd>'"): the installer (re)starts the
\* service, which may take a while to become active.
ServerInstall ==
    /\ pc = "server" /\ spc = "install"
    /\ \E code \in {0, 1} :
         IF AfterInstaller(code) = "failed"
         THEN /\ ServerReturns([srv EXCEPT !.installer = TRUE], FALSE, None,
                                FALSE, FALSE)
              /\ cp' = cp
         ELSE /\ spc' = AfterInstaller(code)
              /\ srv' = [srv EXCEPT !.installer = TRUE, !.polls = 0,
                                    !.sawActive = FALSE]
              /\ cp' = [installed |-> TRUE, active |-> FALSE]
              /\ UNCHANGED <<pc, exit_code, token>>
    /\ UNCHANGED <<idx, bootVars, rebootVars, waitVars, fileVars, agentVars,
                   runVars, checkVars, detailVars, remoteOps>>

\* How many times the status is asked: "for i in range(30)" in install_k3s.py,
\* once (after time.sleep(10)) in bootstrap_cluster.py.
PollLimit(p) == IF p = "ik" THEN MaxPolls ELSE 1

\* Variant of AfterPoll: without the "break" at "active".
AfterPollKeepsPolling(p, n, active) ==
    IF n < PollLimit(p) THEN "poll"
    ELSE IF p = "ik" /\ ~active THEN "journal" ELSE "token"

\* After a poll that made n polls in all: "active" ends the polling; in
\* install_k3s.py the loop's else branch prints the journal after 30 polls.
AfterPoll(p, n, active) ==
    IF active THEN "token"
    ELSE IF n < PollLimit(p) THEN "poll"
    ELSE IF p = "ik" THEN "journal" ELSE "token"

\* One run("systemctl is-active k3s") of the wait.
ServerPoll ==
    /\ pc = "server" /\ spc = "poll"
    /\ \E active \in (IF cp.active THEN {TRUE} ELSE BOOL) :
         /\ cp' = [cp EXCEPT !.active = active]
         /\ srv' = [srv EXCEPT !.polls = @ + 1, !.sawActive = active]
         /\ spc' = AfterPoll(prog, srv.polls + 1, active)
    /\ UNCHANGED <<pc, exit_code, idx, bootVars, rebootVars, waitVars, fileVars,
                   token, agentVars, runVars, checkVars, detailVars, remoteOps>>

\* install_k3s.py: [TIMEOUT], run("sudo journalctl -u k3s ..."), go on.
ServerJournal ==
    /\ pc = "server" /\ spc = "journal"
    /\ spc' = "token"
    /\ UNCHANGED <<pc, exit_code, idx, bootVars, rebootVars, waitVars, cp, srv,
                   fileVars, token, agentVars, runVars, checkVars, detailVars, remoteOps>>

\* What is written to k3s_token.txt for output out: bootstrap_cluster.py
\* writes out, install_k3s.py writes out.strip().
TokenWritten(p, out) == IF p = "ik" THEN Strip(out) ELSE out

\* run("cat /var/lib/rancher/k3s/server/node-token"): "if code == 0:" the
\* token is saved to k3s_token.txt; install_k3s.py else sets token = None.
ServerToken ==
    /\ pc = "server" /\ spc = "token"
    /\ \E code \in {0, 1}, out \in NodeTokenOutputs :
         IF code = 0
         THEN /\ tokenFile' = TokenWritten(prog, out)
              /\ srv' = [srv EXCEPT !.token = TokenWritten(prog, out),
                                    !.wrote = @ \cup {"token"}]
              /\ remoteOps' = remoteOps \cup {"write"}
         ELSE /\ tokenFile' = tokenFile
              /\ srv' = [srv EXCEPT !.token = None]
              /\ remoteOps' = remoteOps
    /\ spc' = "kube"
    /\ UNCHANGED <<pc, exit_code, idx, bootVars, rebootVars, waitVars, cp,
                   kubeFile, token, agentVars, runVars, checkVars, detailVars>>

\* run("cat /etc/rancher/k3s/k3s.yaml"): "if code == 0:" the rewritten text
\* is saved to kubeconfig.yaml.
ServerKube ==
    /\ pc = "server" /\ spc = "kube"
    /\ \E code \in {0, 1} :
         IF code = 0
         THEN /\ kubeFile' = Rewrite(CatOutput(k3sYaml), Host)
              /\ srv' = [srv EXCEPT !.wrote = @ \cup {"kube"}]
              /\ remoteOps' = remoteOps \cup {"write"}
         ELSE /\ kubeFile' = kubeFile
              /\ srv' = srv
              /\ remoteOps' = remoteOps
    /\ spc' = IF prog = "ik" THEN "get_nodes" ELSE "close"
    /\ UNCHANGED <<pc, exit_code, idx, bootVars, rebootVars, waitVars, cp,
                   tokenFile, token, agentVars, runVars, checkVars, detailVars>>

\* install_k3s.py: run("sudo k3s kubectl get nodes"), whose exit code is
\* only printed.
ServerGetNodes ==
    /\ pc = "server" /\ spc = "get_nodes"
    /\ spc' = "close"
    /\ UNCHANGED <<pc, exit_code, idx, bootVars, rebootVars, waitVars, cp, srv,
                   fileVars, token, agentVars, runVars, checkVars, detailVars, remoteOps>>

\* client.close(); "return True" / "return True, token".
ServerSucceeds ==
    /\ pc = "server" /\ spc = "close"
    /\ ServerReturns(srv, TRUE, IF prog = "ik" THEN srv.token ELSE None, TRUE,
                     FALSE)
    /\ cp' = cp
    /\ UNCHANGED <<idx, bootVars, rebootVars, waitVars, fileVars, agentVars,
                   runVars, checkVars, detailVars, remoteOps>>

\* ------------------------------------------------------ main(): the token

\* os.path.exists("k3s_token.txt")
Exists(f) == f # NoFile

\* Variant of TokenForAgents: a missing k3s_token.txt sends main() back to
\* the control-plane install.
TokenForAgentsFetches(p, a, tok, f) ==
    IF Exists(f) THEN [pc |-> "agents", code |-> -1, token |-> Strip(f)]
    ELSE [pc |-> "server", code |-> -1, token |-> tok]

\* bootstrap_cluster.main: with --control-plane-only the run ends; else the
\* token is read from k3s_token.txt, which must exist.
\* install_k3s.main: "if not token:" the file is read, which must exist.
\* Gives the token main() goes on with, or None when main() returns.
TokenForAgents(p, a, tok, f) ==
    IF p = "bc"
    THEN IF a.control_plane_only THEN [pc |-> "done", code |-> 0, token |-> tok]
         ELSE IF Exists(f) THEN [pc |-> "agents", code |-> -1, token |-> Strip(f)]
         ELSE [pc |-> "done", code |-> 1, token |-> tok]
    ELSE IF Truthy(tok) THEN [pc |-> "agents", code |-> -1, token |-> tok]
         ELSE IF Exists(f) THEN [pc |-> "agents", code |-> -1, token |-> Strip(f)]
         ELSE [pc |-> "done", code |-> 1, token |-> tok]

ReadToken ==
    /\ pc = "token"
    /\ LET r == TokenForAgents(prog, args, token, tokenFile) IN
       /\ pc' = r.pc
       /\ exit_code' = r.code
       /\ token' = r.token
    /\ idx' = 1
    /\ UNCHANGED <<bootVars, rebootVars, waitVars, serverVars, fileVars,
                   agentVars, runVars, checkVars, detailVars, remoteOps>>

\* ------------------------------------------------------ install_k3s_agent()

\* How an agent install may go: the worker cannot be reached; its agent is
\* already active; the installer exits non-zero; the installer exits 0 and
\* the status is read; the installer exits 0 and reading the status raises.
AgentOutcomes ==
    {"connect_error", "already_active", "installer_failed", "installed",
     "status_error"}

\* install_k3s_agent: ok is its return value, installer whether it ran the
\* installer.  install_k3s.py returns True for an agent that is already
\* active; bootstrap_cluster.py has no such check and runs the installer
\* (shown here succeeding), and with dry_run returns True at once.
install_k3s_agent(p, dry_run, outcome) ==
    IF p = "bc" /\ dry_run THEN [ok |-> TRUE, installer |-> FALSE]
    ELSE IF outcome = "connect_error" THEN [ok |-> FALSE, installer |-> FALSE]
    ELSE IF outcome = "already_active" /\ p = "ik"
         THEN [ok |-> TRUE, installer |-> FALSE]
    ELSE [ok |-> outcome \in {"installed", "already_active"}, installer |-> TRUE]

\* The remote action an install_k3s_agent call makes: bootstrap_cluster.py
\* returns before get_ssh_client(node) with dry_run.
AgentOps(p, dry_run) == IF p = "bc" /\ dry_run THEN {} ELSE {"agent"}

\* Variant of NextWorker: a "break" after a failed install.
NextWorkerStopsOnFailure(i, ok) == IF ok THEN i + 1 ELSE NumWorkers + 1

\* "for worker in WORKERS:" goes on to the next worker whatever was returned.
NextWorker(i, ok) == i + 1

InstallAgent ==
    /\ pc = "agents" /\ idx <= Len(WORKERS)
    /\ LET worker == WORKERS[idx] IN
       \E outcome \in AgentOutcomes :
         LET r == install_k3s_agent(prog, args.dry_run, outcome) IN
         /\ agentCalls' = Append(agentCalls,
                [worker |-> worker, token |-> token, ok |-> r.ok,
                 installer |-> r.installer,
                 active |-> (outcome = "already_active")])
         /\ failed_workers' =
                IF prog = "ik" /\ ~r.ok THEN Append(failed_workers, worker)
                ELSE failed_workers
         /\ idx' = NextWorker(idx, r.ok)
    /\ remoteOps' = remoteOps \cup AgentOps(prog, args.dry_run)
    /\ UNCHANGED <<pc, exit_code, bootVars, rebootVars, waitVars, serverVars,
                   fileVars, token, runVars, checkVars, detailVars>>

\* The loop is over: (install_k3s.py: the warning and verify_cluster(), whose
\* result is not used;) the summary is printed and main() returns 0.
AgentsDone ==
    /\ pc = "agents" /\ idx > Len(WORKERS)
    /\ pc' = "done"
    /\ exit_code' = 0
    /\ UNCHANGED <<idx, bootVars, rebootVars, waitVars, serverVars, fileVars,
                   token, agentVars, runVars, checkVars, detailVars, remoteOps>>

\* ------------------------------------------------------------ specification

Next ==
    \/ BcStart
    \/ BootstrapNode
    \/ BootstrapDone
    \/ RebootNode
    \/ RebootDone
    \/ WaitRound
    \/ WaitReturn
    \/ PhaseTwo
    \/ IkStart
    \/ ServerDryRun
    \/ ServerConnect
    \/ ServerRaises
    \/ ServerConnected
    \/ ServerWhich
    \/ ServerIsActive
    \/ ServerOldToken
    \/ ServerInstall
    \/ ServerPoll
    \/ ServerJournal
    \/ ServerToken
    \/ ServerKube
    \/ ServerGetNodes
    \/ ServerSucceeds
    \/ ReadToken
    \/ InstallAgent
    \/ AgentsDone

Spec == Init /\ [][Next]_vars

\* bootstrap_cluster.py --bootstrap-only --skip-reboot, started up to
\* MaxRuns times on workers flashed with any of the images, each bootstrap
\* call followed command by command.
StepArgs ==
    {a \in BcArgs : a.bootstrap_only /\ a.skip_reboot /\ ~a.k3s_only}

InitSteps ==
    /\ prog = "bc"
    /\ args \in StepArgs
    /\ pc = "start"
    /\ exit_code = -1
    /\ all_nodes = <<>>
    /\ idx = 0
    /\ bootstrap_success = TRUE
    /\ needs_reboot = <<>>
    /\ bootFailed = {}
    /\ ns = [n \in WorkerSet |-> "up"]
    /\ lastReboot = NoReboot
    /\ pending = <<>>
    /\ clock = 0
    /\ answered = {}
    /\ waitResult = "none"
    /\ reported = <<>>
    /\ spc = "idle"
    /\ cp = [installed |-> FALSE, active |-> FALSE]
    /\ srv = SrvInit
    /\ tokenFile = NoFile
    /\ kubeFile = NoFile
    /\ token = None
    /\ agentCalls = <<>>
    /\ failed_workers = <<>>
    /\ remoteOps = {}
    /\ k3sYaml = K3sYaml
    /\ runs = 1
    /\ image \in Images
    /\ boot = BootInit(image)
    /\ prepared = {}
    /\ call = NoCall
    /\ node_states = <<>>
    /\ all_ready = TRUE
    /\ cgroupFacts = NoFacts

NextSteps ==
    \/ BcStart
    \/ BootEnter
    \/ BootStep
    \/ BootstrapDone
    \/ PhaseTwo
    \/ Rerun

SpecSteps == InitSteps /\ [][NextSteps]_vars

\* install_k3s_server about to run "cat /etc/rancher/k3s/k3s.yaml" on a
\* control plane whose k3s.yaml is any text of KubeTexts, the installer
\* having run and the token having been saved.
InitRewrite ==
    /\ prog \in {"bc", "ik"}
    /\ args = [dry_run |-> FALSE, bootstrap_only |-> FALSE,
               k3s_only |-> (prog = "bc"), skip_reboot |-> FALSE,
               workers_only |-> FALSE, control_plane_only |-> FALSE,
               server_only |-> FALSE, agents_only |-> FALSE, token |-> None]
    /\ pc = "server"
    /\ exit_code = -1
    /\ all_nodes = IF prog = "bc" THEN AllNodes(args) ELSE <<>>
    /\ idx = IF prog = "bc" THEN 1 ELSE 0
    /\ bootstrap_success = TRUE
    /\ needs_reboot = <<>>
    /\ bootFailed = {}
    /\ ns = [n \in WorkerSet |-> "up"]
    /\ lastReboot = NoReboot
    /\ pending = <<>>
    /\ clock = 0
    /\ answered = {}
    /\ waitResult = "none"
    /\ reported = <<>>
    /\ spc = "kube"
    /\ cp = [installed |-> TRUE, active |-> TRUE]
    /\ srv = [SrvInit EXCEPT !.installer = TRUE, !.polls = 1,
                             !.sawActive = TRUE, !.wrote = {"token"},
                             !.token = TokCp]
    /\ tokenFile = TokCp
    /\ kubeFile = NoFile
    /\ token = None
    /\ agentCalls = <<>>
    /\ failed_workers = <<>>
    /\ remoteOps = {"server", "write"}
    /\ k3sYaml \in KubeTexts
    /\ runs = 1
    /\ image = PlainLine
    /\ boot = BootInit(image)
    /\ prepared = {}
    /\ call = NoCall
    /\ node_states = <<>>
    /\ all_ready = TRUE
    /\ cgroupFacts = NoFacts

NextRewrite ==
    \/ ServerKube
    \/ ServerGetNodes
    \/ ServerSucceeds

SpecRewrite == InitRewrite /\ [][NextRewrite]_vars

\* bootstrap_cluster.py --bootstrap-only run to the end of wait_for_nodes.
\* The process keeps running: a round of the polling loop that can be made
\* is made (each probe returns or times out), and so is the return.
WaitArgs ==
    {a \in BcArgs : a.bootstrap_only /\ ~a.k3s_only /\ ~a.dry_run
                     /\ ~a.skip_reboot /\ ~a.control_plane_only}

InitWait ==
    /\ Init
    /\ prog = "bc"
    /\ args \in WaitArgs
    /\ cp = [installed |-> FALSE, active |-> FALSE]
    /\ tokenFile = NoFile

NextWait ==
    \/ BcStart
    \/ BootstrapNode
    \/ BootstrapDone
    \/ RebootNode
    \/ RebootDone
    \/ WaitRound
    \/ WaitReturn
    \/ PhaseTwo

SpecWait ==
    InitWait /\ [][NextWait]_vars /\ WF_vars(WaitRound) /\ WF_vars(WaitReturn)

\* ------------------------------------------------- check_cluster_state.py

\* How many of the workers of NODES main() goes over here.
NumChecked == 1

\* NODES: the control plane, then the workers.
NODES == <<CONTROL_PLANE>> \o [i \in 1..NumChecked |-> i]

\* The run_command calls of check_node_state, in order, by what they set.
Probes(type) ==
    IF type = "worker"
    THEN <<"hostname", "arch", "swap", "cgroup_version", "cgroup_memory",
           "k3s_installed", "k3s_running", "python3", "storage">>
    ELSE <<"hostname", "arch", "swap", "k3s_installed", "k3s_running",
           "python3">>

\* What "free -h | grep -i swap | awk '{print $2}'" may print.
SwapOutputs == {"0B", "0", "", "2.0Gi"}

\* A worker's cgroup files: which hierarchy is mounted on /sys/fs/cgroup,
\* whether /sys/fs/cgroup/memory.stat is there, the words of
\* /sys/fs/cgroup/cgroup.controllers, and the fourth column of the memory
\* line of /proc/cgroups.  A legacy hierarchy has neither of the two files.
CgroupFacts ==
    {f \in [hierarchy : {"unified", "legacy"}, memstat : BOOL,
            controllers : {<<"cpu", "memory", "pids">>, <<"cpu", "pids">>, <<>>},
            enabled : {"1", "0"}] :
        IF f.hierarchy = "legacy" THEN ~f.memstat /\ f.controllers = <<>>
        ELSE f.controllers # <<>>}

\* What a node answers to the commands of check_node_state.
NodeFacts(type) ==
    [swap : SwapOutputs,
     cg : IF type = "worker" THEN CgroupFacts ELSE {NoFacts},
     installed : BOOL, active : BOOL]

\* check_node_state(node): the results dict (the keys main() reads) when
\* the first done commands return and the next call raises; with all of
\* them done the session is closed and reachable is True.  A failing
\* get_ssh_client is done = 0.
check_node_state(type, f, done) ==
    LET ran(name) == \E i \in 1..done : Probes(type)[i] = name
        cgroup_version == IF f.cg.memstat THEN "v2" ELSE "v1"
        cgroups_memory ==
            IF cgroup_version = "v2"
            THEN ("memory" \in Range(f.cg.controllers)) \/ TRUE
            ELSE f.cg.enabled = "1"
    IN  (IF ran("swap")
         THEN "swap_disabled" :> (f.swap \in {"0B", "0", ""}) ELSE <<>>)
        @@ (IF ran("cgroup_memory")
            THEN ("cgroups_memory" :> cgroups_memory)
                 @@ ("cgroup_version" :> cgroup_version)
            ELSE <<>>)
        @@ (IF ran("k3s_installed")
            THEN "k3s_installed" :> f.installed ELSE <<>>)
        @@ (IF ran("k3s_running") THEN "k3s_running" :> f.active ELSE <<>>)
        @@ ("reachable" :> (done = Len(Probes(type))))

\* state.get(key) read as a truth value: a missing key gives None.
Get(state, key) == key \in DOMAIN state /\ state[key]

\* main(): needs_bootstrap of a reachable node.
NeedsBootstrap(type, state) ==
    \/ ~Get(state, "swap_disabled")
    \/ type = "worker" /\ ~Get(state, "cgroups_memory")

\* main(): all_ready after one pass of the loop body.
AllReady(ready, type, state) ==
    IF ~Get(state, "reachable") THEN FALSE
    ELSE IF NeedsBootstrap(type, state) THEN FALSE
    ELSE ready

\* sum(1 for n, s in node_states if s.get(key))
Sum(states, key) == Cardinality({i \in DOMAIN states : Get(states[i], key)})

\* main(): the return value chosen after the summary.
ExitCode(states) ==
    LET k3s_installed == Sum(states, "k3s_installed")
        k3s_running == Sum(states, "k3s_running")
        swap_ok == Sum(states, "swap_disabled")
    IN  IF k3s_running = Len(NODES) THEN 0
        ELSE IF k3s_installed > 0 /\ k3s_running < Len(NODES) THEN 1
        ELSE IF swap_ok < Len(NODES) THEN 1
        ELSE 0

\* One pass of "for node in NODES:": check_node_state(node), the append to
\* node_states (the states only: entry i belongs to NODES[i]) and the update
\* of all_ready.  cgroupFacts keeps the cgroup files the check has read.
CheckNode ==
    /\ prog = "cc" /\ pc = "check" /\ idx <= Len(NODES)
    /\ LET type == NodeType(NODES[idx]) IN
       \E f \in NodeFacts(type), done \in 0..Len(Probes(type)) :
         LET state == check_node_state(type, f, done) IN
         /\ node_states' = Append(node_states, state)
         /\ all_ready' = AllReady(all_ready, type, state)
         /\ cgroupFacts' =
                IF "cgroups_memory" \in DOMAIN state THEN f.cg ELSE NoFacts
    /\ idx' = idx + 1
    /\ UNCHANGED <<pc, exit_code, bootVars, rebootVars, waitVars, serverVars,
                   fileVars, token, agentVars, runVars, detailVars, remoteOps>>

\* The loop is over: the summary is printed and main() returns.
Summarise ==
    /\ prog = "cc" /\ pc = "check" /\ idx > Len(NODES)
    /\ pc' = "done"
    /\ exit_code' = ExitCode(node_states)
    /\ UNCHANGED <<idx, bootVars, rebootVars, waitVars, serverVars, fileVars,
                   token, agentVars, runVars, checkVars, detailVars, remoteOps>>

\* check_cluster_state.py takes no flags.
CcArgs ==
    [dry_run |-> FALSE, bootstrap_only |-> FALSE, k3s_only |-> FALSE,
     skip_reboot |-> FALSE, workers_only |-> FALSE,
     control_plane_only |-> FALSE, server_only |-> FALSE,
     agents_only |-> FALSE, token |-> None]

InitCheck ==
    /\ prog = "cc"
    /\ args = CcArgs
    /\ pc = "check"
    /\ exit_code = -1
    /\ all_nodes = <<>>
    /\ idx = 1
    /\ bootstrap_success = TRUE
    /\ needs_reboot = <<>>
    /\ bootFailed = {}
    /\ ns = [n \in WorkerSet |-> "up"]
    /\ lastReboot = NoReboot
    /\ pending = <<>>
    /\ clock = 0
    /\ answered = {}
    /\ waitResult = "none"
    /\ reported = <<>>
    /\ spc = "idle"
    /\ cp = [installed |-> FALSE, active |-> FALSE]
    /\ srv = SrvInit
    /\ tokenFile = NoFile
    /\ kubeFile = NoFile
    /\ token = None
    /\ agentCalls = <<>>
    /\ failed_workers = <<>>
    /\ remoteOps = {}
    /\ k3sYaml = K3sYaml
    /\ runs = 1
    /\ image = PlainLine
    /\ boot = BootInit(image)
    /\ prepared = {}
    /\ call = NoCall
    /\ node_states = <<>>
    /\ all_ready = TRUE
    /\ cgroupFacts = NoFacts

NextCheck ==
    \/ CheckNode
    \/ Summarise

SpecCheck == InitCheck /\ [][NextCheck]_vars

\* ------------------------------------------------------------------ claims

\* The run performs the control-plane install: bootstrap_cluster.py without
\* --workers-only, install_k3s.py without --agents-only.
RunsServer ==
    \/ prog = "bc" /\ ~args.workers_only
    \/ prog = "ik" /\ ~args.agents_only

\* The token install_k3s_server read from the control plane in this run
\* (None when it read none).
SrvReadToken == IF srv.retToken # None THEN srv.retToken ELSE srv.token

\* C1, as claimed: whatever the flags, an install_k3s_agent call is made only
\* after install_k3s_server has returned success with a join token in this
\* run.
C1_AgentsOnlyAfterServerToken ==
    agentCalls # <<>> => (srv.result = "ok" /\ Truthy(SrvReadToken))

\* C1, amended: in a run that performs the control-plane install, an
\* install_k3s_agent call is made only after install_k3s_server has returned
\* success in this run; in a run that skips it (--workers-only, --agents-only)
\* the agents are installed without any install_k3s_server call.
C1_AgentsOnlyAfterServerSuccess ==
    agentCalls # <<>> =>
        IF RunsServer THEN srv.result = "ok" /\ spc = "idle"
        ELSE srv.result = "none" /\ spc = "idle"

C1_Witness ==
    /\ agentCalls # <<>>
    /\ RunsServer /\ ~args.dry_run
    /\ srv.result = "ok"

\* C2, as claimed: every install_k3s_agent call receives a token that exists
\* (a non-empty value).
C2_AgentTokenNonEmpty ==
    \A i \in DOMAIN agentCalls : Truthy(agentCalls[i].token)

\* C3, as claimed: there being no operator override in either script, agent
\* installation starts only once the control-plane service has been seen
\* "active"; a status poll that never answers "active" does not let it start.
C3_NoAgentsAfterPollTimeout ==
    (agentCalls # <<>> /\ srv.polls > 0) => srv.sawActive

\* C3, amended: in a run that performs the control-plane install (not as a
\* dry run), agent installation starts only after the service has been seen
\* "active" or the status has been asked as often as the script asks it (30
\* times in install_k3s.py, once in bootstrap_cluster.py); the timeout alone
\* lets it start.
C3_AgentsAfterActiveOrPollTimeout ==
    (agentCalls # <<>> /\ RunsServer /\ ~args.dry_run) =>
        (srv.sawActive \/ srv.polls = PollLimit(prog))

C3_Witness ==
    /\ agentCalls # <<>>
    /\ prog = "ik" /\ srv.installer
    /\ ~srv.sawActive /\ srv.polls = MaxPolls

\* C4: in bootstrap_cluster.main, when wait_for_nodes returns False (a
\* rebooted node is still unreachable at the timeout) the run has ended with
\* exit code 1 and neither install_k3s_server nor install_k3s_agent has been
\* or will be called.
C4_WaitTimeoutStopsRun ==
    waitResult = "timeout" =>
        /\ pc = "done" /\ exit_code = 1
        /\ srv = SrvInit /\ spc = "idle"
        /\ agentCalls = <<>>

C4_Witness ==
    /\ waitResult = "timeout" /\ pc = "done"
    /\ reported # <<>>

\* wait_for_nodes has just returned (its report is still at hand).
WaitJustReturned ==
    \/ waitResult = "ok" /\ pc = "phase1_end"
    \/ waitResult = "timeout"

\* C5: when wait_for_nodes returns, the nodes it reports as still unreachable
\* are exactly the nodes passed to it that never answered a probe, in order:
\* no node that answered is listed and no node that stays silent is left out;
\* it returns success exactly when that list is empty, so when all nodes
\* answered.
C5_WaitReportsExactlySilentNodes ==
    WaitJustReturned =>
        /\ reported = SelectSeq(needs_reboot, LAMBDA n : n \notin answered)
        /\ (waitResult = "ok") = (reported = <<>>)
        /\ (answered = Range(needs_reboot)) => (waitResult = "ok")
        /\ \A n \in Range(needs_reboot) :
             ns[n] = "dead" => n \in Range(reported)
        /\ \A n \in Range(needs_reboot) :
             n \in answered => Answers(ns[n])

C5_Witness ==
    /\ waitResult = "timeout"
    /\ answered # {}
    /\ \E n \in Range(reported) : ns[n] = "dead"

\* C6: when install_k3s_server returns failure, in either script, the run has
\* ended with exit code 1 and no install_k3s_agent call is made.
C6_ServerFailureStopsRun ==
    srv.result = "fail" =>
        /\ pc = "done" /\ exit_code = 1
        /\ agentCalls = <<>>

C6_Witness ==
    /\ srv.result = "fail" /\ srv.installer /\ ~srv.raised
    /\ pc = "done"

\* The run has gone through the agent loop and ended.
AgentStageOver ==
    /\ pc = "done" /\ exit_code = 0
    /\ prog = "bc" => ~args.bootstrap_only /\ ~args.control_plane_only
    /\ prog = "ik" => ~args.server_only

\* C7: the install_k3s_agent calls are made for the workers in inventory
\* order, one each, whatever the earlier calls returned; when the agent stage
\* is over every worker has had its call; install_k3s.main's failed_workers
\* holds exactly the workers whose call returned False.
C7_EveryWorkerAttemptedOnce ==
    /\ Len(agentCalls) <= Len(WORKERS)
    /\ \A i \in DOMAIN agentCalls : agentCalls[i].worker = WORKERS[i]
    /\ pc = "agents" => Len(agentCalls) = idx - 1
    /\ AgentStageOver => Len(agentCalls) = Len(WORKERS)
    /\ prog = "ik" =>
         failed_workers =
           SelectSeq(WORKERS,
                     LAMBDA w : w <= Len(agentCalls) /\ ~agentCalls[w].ok)

C7_Witness ==
    /\ AgentStageOver /\ prog = "ik"
    /\ ~agentCalls[1].ok
    /\ agentCalls[Len(WORKERS)].ok
    /\ failed_workers = <<WORKERS[1]>>

\* C8, as claimed: bootstrap_cluster.main ends with a non-zero exit code
\* whenever a node's bootstrap failed, the control-plane install failed or the
\* reboot wait timed out.
C8_FailureGivesNonZeroExit ==
    (prog = "bc" /\ pc = "done"
        /\ (bootFailed # {} \/ srv.result = "fail" \/ waitResult = "timeout"))
    => exit_code # 0

\* C9, as claimed: when the control-plane service is already active when
\* install_k3s_server is called (and no transport error occurs), it returns
\* success without running the installer, in either script.
C9_ActiveServerNotReinstalled ==
    (srv.result # "none" /\ srv.activeAtCall /\ ~srv.raised)
    => (srv.result = "ok" /\ ~srv.installer)

\* C10, as claimed: whenever install_k3s_server (not as a dry run) returns
\* success, the call has written both k3s_token.txt and kubeconfig.yaml.
C10_SuccessPersistsBothArtifacts ==
    (srv.result = "ok" /\ ~args.dry_run) => srv.wrote = {"token", "kube"}

\* C11, as claimed: an install_k3s_agent call on a worker whose agent service
\* is already active returns success without running the installer, in
\* install_k3s.py and in bootstrap_cluster.py.
C11_ActiveAgentNotReinstalled ==
    \A i \in DOMAIN agentCalls :
        agentCalls[i].active =>
            (agentCalls[i].ok /\ ~agentCalls[i].installer)

\* The places where pat occurs in the text s.
Occ(s, pat) ==
    {i \in 1..(Len(s) - Len(pat) + 1) : SubSeq(s, i, i + Len(pat) - 1) = pat}

\* The pieces of a k3s.yaml with each loopback piece turned into the host.
PieceMap(ps) ==
    [i \in DOMAIN ps |-> IF ps[i] \in {Loopback, Localhost} THEN Host ELSE ps[i]]

\* The loopback names occur in the text of ps only as its loopback pieces.
NoCrossing(ps) ==
    /\ Cardinality(Occ(Flatten(ps), Loopback)) = Count(ps, {Loopback})
    /\ Cardinality(Occ(Flatten(ps), Localhost)) = Count(ps, {Localhost})

\* No occurrence of a loopback name in s has a "." right before it or a "7"
\* right after it.
Delimited(s) ==
    \A pat \in {Loopback, Localhost} : \A i \in Occ(s, pat) :
        /\ i > 1 => s[i - 1] # "."
        /\ i + Len(pat) <= Len(s) => s[i + Len(pat)] # "7"

\* install_k3s_server has saved kubeconfig.yaml in this call.
KubeSaved == "kube" \in srv.wrote

ImageHasBoth == Grep(image, MemParam) /\ Grep(image, EnableParam)

\* C13, as claimed: on a worker whose command line already holds both cgroup
\* parameters, however often the cgroup step of bootstrap_rpi has been run,
\* cmdline.txt is as it was and its .bak has been written exactly once.
C13_UnchangedAndBackedUpOnce ==
    \A n \in WorkerSet :
        (ImageHasBoth /\ boot[n].applied >= 1) =>
            (boot[n].line = image /\ boot[n].baks = 1)

\* C14, as claimed: whatever command line a worker came with, once the
\* cgroup step of bootstrap_rpi has been run on it (any number of times) the
\* line holds cgroup_memory=1 exactly once and cgroup_enable=memory exactly
\* once.
C14_EachParameterExactlyOnce ==
    \A n \in WorkerSet :
        (image # NoFile /\ boot[n].applied >= 1) =>
            /\ Count(boot[n].line, {MemParam}) = 1
            /\ Count(boot[n].line, {EnableParam}) = 1

\* C15, as claimed: when the script is started again, a bootstrap call on a
\* node on which every step has already exited 0 issues no command.
C15_SecondRunIssuesNothing ==
    (runs >= 2 /\ call.step > 0 /\ call.node \in prepared) =>
        call.issued = <<>>

\* C16: with --dry-run, whatever the other flags, bootstrap_cluster.main
\* opens no connection, runs no remote command, sends no reboot, probes no
\* node and writes neither k3s_token.txt nor kubeconfig.yaml.
C16_DryRunNoRemoteAction ==
    (prog = "bc" /\ args.dry_run) =>
        /\ remoteOps = {}
        /\ spc = "idle" /\ ~srv.installer /\ srv.wrote = {}
        /\ lastReboot = NoReboot /\ waitResult = "none"
        /\ \A i \in DOMAIN agentCalls : ~agentCalls[i].installer

C16_Witness ==
    /\ prog = "bc" /\ args.dry_run
    /\ ~args.k3s_only /\ ~args.skip_reboot
    /\ needs_reboot = WORKERS
    /\ srv.result = "ok"
    /\ Len(agentCalls) = Len(WORKERS)
    /\ pc = "done" /\ exit_code = 0

\* C17, as claimed: in a run that is not a dry run, needs_reboot holds only
\* workers whose cgroup step exited 0; a worker whose cgroup step exited
\* non-zero is not in it, and the control plane never is.
C17_FlaggedOnlyAfterCgroupSuccess ==
    ~args.dry_run =>
        /\ \A n \in Range(needs_reboot) :
              NodeType(n) = "worker" /\ boot[n].cg = "ok"
        /\ \A n \in WorkerSet :
              boot[n].cg = "failed" => n \notin Range(needs_reboot)

\* bootstrap_cluster.py was started without any flag.
NoFlags ==
    /\ prog = "bc"
    /\ ~args.dry_run /\ ~args.bootstrap_only /\ ~args.k3s_only
    /\ ~args.skip_reboot /\ ~args.workers_only /\ ~args.control_plane_only

\* Nothing has failed so far in the run: no bootstrap call returned False,
\* the wait has not timed out, the server install has not failed, and every
\* agent install returned True after running the installer.
NothingFailed ==
    /\ bootFailed = {}
    /\ waitResult # "timeout"
    /\ srv.result # "fail"
    /\ \A i \in DOMAIN agentCalls :
          agentCalls[i].ok /\ agentCalls[i].installer

\* C18: a run of bootstrap_cluster.main without flags on a fleet where every
\* node answers and every remote command succeeds goes through its stages
\* in order and ends with exit code 0: every node bootstrapped and exactly
\* the workers in needs_reboot; the workers rebooted and all found reachable
\* again before the control-plane install starts; the control-plane install
\* successful with the token saved before the first agent install; one
\* successful agent install per worker, each with that token.
C18_FullRunEndsZeroInOrder ==
    (NoFlags /\ NothingFailed) =>
        /\ pc \in {"reboot", "wait"} =>
              (needs_reboot = WORKERS /\ srv = SrvInit /\ agentCalls = <<>>)
        /\ pc = "server" =>
              (needs_reboot = WORKERS /\ waitResult = "ok" /\ agentCalls = <<>>)
        /\ pc \in {"token", "agents"} =>
              (waitResult = "ok" /\ srv.result = "ok" /\ srv.installer)
        /\ \A i \in DOMAIN agentCalls :
              /\ agentCalls[i].worker = WORKERS[i]
              /\ "token" \in srv.wrote => agentCalls[i].token = Strip(srv.token)
        /\ (pc = "done" /\ "token" \in srv.wrote) =>
              /\ exit_code = 0
              /\ needs_reboot = WORKERS
              /\ waitResult = "ok"
              /\ srv.result = "ok" /\ srv.installer
              /\ Len(agentCalls) = Len(WORKERS)
              /\ {"bootstrap", "reboot", "probe", "server", "write", "agent"}
                    \subseteq remoteOps

C18_Witness ==
    /\ NoFlags /\ NothingFailed
    /\ pc = "done" /\ exit_code = 0
    /\ ~srv.activeAtCall /\ srv.sawActive
    /\ srv.wrote = {"token", "kube"} /\ srv.token = TokCp
    /\ Len(agentCalls) = Len(WORKERS)
    /\ \A i \in DOMAIN agentCalls :
          agentCalls[i].token = TokCp /\ ~agentCalls[i].active

\* The bootstrap call of the step-by-step view has returned.
CallReturned == call.node # -1 /\ call.step = 0

C20_BoundedPollThenGoesOn ==
    (prog = "ik" /\ srv.installer) =>
        /\ srv.polls <= MaxPolls
        /\ spc = "poll" => (~srv.sawActive /\ srv.polls < MaxPolls)
        /\ spc = "journal" => (~srv.sawActive /\ srv.polls = MaxPolls)
        /\ spc \in {"token", "kube", "get_nodes", "close"} =>
              (srv.sawActive \/ srv.polls = MaxPolls)
        /\ (srv.result = "fail" /\ srv.polls = MaxPolls /\ ~srv.sawActive) =>
              srv.raised
        /\ srv.result = "ok" => (srv.sawActive \/ srv.polls = MaxPolls)

C20_Witness ==
    /\ prog = "ik" /\ srv.installer
    /\ srv.result = "ok" /\ ~srv.raised
    /\ ~srv.sawActive /\ srv.polls = MaxPolls
    /\ srv.wrote = {"token", "kube"}
    /\ agentCalls = <<>>

\* The reboot command was sent and the connection was lost while it ran.
DroppedAfterDispatch(outcome) == outcome \in {"dropped", "dropped_other"}

\* reboot_node raised before run_command(client, "reboot", sudo=True).
FailedBeforeDispatch(outcome) == outcome \in {"connect_error", "connect_reset"}

\* C21: every reboot_node call reports success when the reboot command was
\* dispatched and the connection then dropped, and reports an error when a
\* transport error occurred before the command was dispatched; and the run
\* does not go on to wait for a node whose call reported an error as if its
\* reboot had been initiated.
C21_RebootErrorIsAnError ==
    [][/\ (lastReboot'.node # -1 /\ DroppedAfterDispatch(lastReboot'.outcome))
            => lastReboot'.ok
       /\ (lastReboot'.node # -1 /\ FailedBeforeDispatch(lastReboot'.outcome))
            => ~lastReboot'.ok
       /\ (lastReboot.node # -1 /\ ~lastReboot.ok /\ pc' = "wait")
            => lastReboot.node \notin Range(pending')]_vars

\* C22: wait_for_nodes always terminates: whatever the nodes do, nodes that
\* never answer included, the polling loop is left, and once the timeout has
\* elapsed with a node still pending it is left with the failure result.
C22_WaitTerminates ==
    /\ (pc = "wait") ~> (pc # "wait")
    /\ (pc = "wait" /\ pending # <<>> /\ clock >= WaitTimeout)
         ~> (waitResult = "timeout" /\ exit_code = 1)

\* wait_for_nodes has returned failure for nodes that never answered.
C22_Witness ==
    /\ waitResult = "timeout"
    /\ reported # <<>>
    /\ \A n \in Range(reported) : ns[n] = "dead"

\* A step that writes k3s_token.txt (kubeconfig.yaml).
WritesToken == tokenFile' # tokenFile \/ ("token" \in srv'.wrote \ srv.wrote)
WritesKube == kubeFile' # kubeFile \/ ("kube" \in srv'.wrote \ srv.wrote)

\* C24: in a run each of the two files is written at most once and only by
\* the control-plane install step of a run that performs it, no write
\* happens once the token has been read for the agents or an agent install
\* has started, and the token read for the agents is the one the completed
\* write left in the file.
C24_ArtifactsWrittenOnceBeforeAgents ==
    /\ [][(WritesToken =>
              (pc = "server" /\ spc = "token" /\ RunsServer
               /\ srv.wrote = {} /\ agentCalls = <<>>))
          /\ (WritesKube =>
              (pc = "server" /\ spc = "kube" /\ RunsServer
               /\ "kube" \notin srv.wrote /\ agentCalls = <<>>))
          /\ (pc \in {"token", "agents", "done"} => UNCHANGED fileVars)]_vars
    /\ []((prog = "bc" /\ "token" \in srv.wrote /\ agentCalls # <<>>) =>
            \A i \in DOMAIN agentCalls : agentCalls[i].token = Strip(srv.token))

\* Both files were written and an agent install was handed the written
\* token.
C24_Witness ==
    /\ srv.wrote = {"token", "kube"}
    /\ agentCalls # <<>>
    /\ agentCalls[1].token = Strip(tokenFile)
    /\ Truthy(agentCalls[1].token)

\* install_k3s_server has been called in this run.
ServerAttempted == srv.result # "none" \/ spc # "idle"

\* C25: in a run of bootstrap_cluster.main that executes the bootstrap phase,
\* neither install_k3s_server nor install_k3s_agent is attempted on a node
\* whose bootstrap ended in failure in that run.
C25_NoInstallOnFailedNode ==
    (prog = "bc" /\ ~args.k3s_only) =>
        /\ ServerAttempted => CONTROL_PLANE \notin bootFailed
        /\ \A i \in DOMAIN agentCalls : agentCalls[i].worker \notin bootFailed

\* C26: in a run that performs the control-plane install, every
\* install_k3s_agent call is handed the token read from the control plane in
\* that run, never a value an earlier run left in k3s_token.txt, also when
\* reading the token from the control plane failed.
C26_AgentTokenIsThisRunsToken ==
    (RunsServer /\ ~args.dry_run) =>
        \A i \in DOMAIN agentCalls :
            /\ SrvReadToken # None
            /\ agentCalls[i].token = Strip(SrvReadToken)

\* install_k3s_server got its session: it ran a command after
\* get_ssh_client(node) returned.
ServerSessionOpened == srv.installer \/ srv.polls > 0 \/ srv.wrote # {}

\* reboot_node calls client.close() only after run_command has returned.
RebootClosed(outcome) == outcome = "returned"

\* C27: every SSH session opened by install_k3s_server or reboot_node is
\* closed before the function returns, on the success path and on every
\* failure or early-return path (installer failure, already-active
\* short-circuit, exception).
C27_SessionClosedOnEveryPath ==
    /\ (srv.result # "none" /\ ServerSessionOpened) => srv.closed
    /\ (lastReboot.node # -1 /\ Dispatched(lastReboot.outcome))
         => RebootClosed(lastReboot.outcome)

\* C29: wait_for_nodes takes a node off the pending list only once the node
\* has gone down and come back up, so when it returns every node it
\* confirmed has completed its reboot; a node that answers because it has
\* not yet begun shutting down is not confirmed.
C29_ConfirmedNodesHaveRebooted ==
    WaitJustReturned => \A n \in answered : ns[n] = "back"

\* The state of the worker check_node_state has just read the cgroup files
\* of.
LastState == node_states[Len(node_states)]

\* The memory controller is available in the hierarchy that is mounted.
MemoryAvailable(f) ==
    IF f.hierarchy = "unified" THEN "memory" \in Range(f.controllers)
    ELSE f.enabled = "1"

\* C23: for a worker, check_node_state reports the hierarchy that is mounted
\* (v2 for unified, v1 for legacy) and reports cgroups_memory as true
\* exactly when the memory controller is available in that hierarchy; on a
\* unified hierarchy whose controller list lacks memory it is false.
C23_CgroupsMemoryIffController ==
    (prog = "cc" /\ cgroupFacts # NoFacts) =>
        /\ LastState["cgroup_version"] =
              (IF cgroupFacts.hierarchy = "unified" THEN "v2" ELSE "v1")
        /\ LastState["cgroups_memory"] = MemoryAvailable(cgroupFacts)

\* main() has printed its summary and returned.
CheckDone == prog = "cc" /\ pc = "done"

\* C28: in the summary every node counted as swap-ok, as installed or as
\* running is also counted as reachable, so none of these counts exceeds the
\* reachable count, which does not exceed the number of nodes; also when a
\* node's connection dropped part-way through its probes.
C28_CountedNodesAreReachable ==
    CheckDone =>
        /\ \A i \in DOMAIN node_states :
             \A key \in {"swap_disabled", "k3s_installed", "k3s_running"} :
                Get(node_states[i], key) => Get(node_states[i], "reachable")
        /\ \A key \in {"swap_disabled", "k3s_installed", "k3s_running"} :
             Sum(node_states, key) <= Sum(node_states, "reachable")
        /\ Sum(node_states, "reachable") <= Len(NODES)

\* C30: main() returns 0 only if every node is reachable, swap is disabled
\* on every node and the cgroup memory controller is enabled on every
\* worker; whenever some node was found to need bootstrap the exit code is
\* not 0.
C30_ZeroOnlyIfAllReady ==
    (CheckDone /\ exit_code = 0) =>
        \A i \in DOMAIN node_states :
            /\ Get(node_states[i], "reachable")
            /\ ~NeedsBootstrap(NodeType(NODES[i]), node_states[i])
====
